---------------------------- MODULE Spec2Model ----------------------------
(***************************************************************************)
(* A model of the state containers of the Superset frontend:               *)
(*   - Registry (superset/assets/src/modules/Registry.js): a keyed store   *)
(*     with memoized futures;                                              *)
(*   - the dashboard reducer                                               *)
(*     (superset/assets/javascripts/dashboard/reducers.js).                *)
(* JavaScript values are modelled by what the code can observe of them:    *)
(* their truthiness, their identity (for objects) and their contents.      *)
(***************************************************************************)
EXTENDS Integers, Sequences, FiniteSets, TLC

VARIABLES
    items,      \* Registry.items: the own properties, key -> value or Absent
    promises,   \* Registry.promises: the own properties, key -> future id or 0
    heap,       \* the Promise objects created so far, by identity (index)
    ret,        \* the last Registry call and what it returned
    registered, \* history: the keys ever passed to register
    handed,     \* history: per key, the futures returned by successful
                \* getAsPromise calls since the last register of that key
    issued,     \* history: per future, the value it was resolved with and the
                \* item its key had when it was made
    regen,      \* history: per key, a future was handed out and the key was
                \* registered again afterwards
    roots,      \* the dashboard state objects created so far, by identity
    fobjs,      \* the per-slice filter objects (state.filters[sliceId])
    cur,        \* the reference the store currently holds (index in roots)
    last,       \* the last dispatched action and what the reducer did
    boot,       \* the bootstrap payload and the page's request parameter
    init,       \* what getInitialState returned, once it was called
    store,      \* the composite store: its root objects by identity, the
                \* root it holds and what the charts reducer last returned
    sel,        \* SelectFilter: the options cache, the fetchSelects calls
                \* made and the loadOptions calls with where each one stands
    csm,        \* ColorSchemeManager: schemes, defaultSchemeName and the last call
    modal,      \* AlertReportModal: currentAlert and disableSave
    pane,       \* DataTablesPane: the queryFormData in force, the requests issued
                \* and the data, error and isLoading states
    lv          \* useListViewState: internalFilters, the table's filters and
                \* pageIndex, and the last call with the state it found

regVars == <<items, promises, heap, ret, registered, handed, issued, regen>>
dashVars == <<roots, fobjs, cur, last>>
bootVars == <<boot, init>>
storeVars == <<store>>
selVars == <<sel>>
csmVars == <<csm>>
modalVars == <<modal>>
paneVars == <<pane>>
lvVars == <<lv>>
vars == <<items, promises, heap, ret, registered, handed, issued, regen,
          roots, fobjs, cur, last, boot, init, store,
          sel, csm, modal, pane, lv>>
\* What the calls on one component leave alone.
besideRegistry == <<dashVars, bootVars, storeVars, selVars, csmVars,
                     modalVars, paneVars, lvVars>>
besideDashboard == <<regVars, bootVars, selVars, csmVars, modalVars,
                      paneVars, lvVars>>
besideBoot == <<regVars, dashVars, storeVars, selVars, csmVars, modalVars,
                 paneVars, lvVars>>
besideSelect == <<regVars, dashVars, bootVars, storeVars, csmVars, modalVars,
                   paneVars, lvVars>>
besideSchemes == <<regVars, dashVars, bootVars, storeVars, selVars,
                    modalVars, paneVars, lvVars>>
besideModal == <<regVars, dashVars, bootVars, storeVars, selVars, csmVars,
                  paneVars, lvVars>>
besidePane == <<regVars, dashVars, bootVars, storeVars, selVars, csmVars,
                 modalVars, lvVars>>
besideListView == <<regVars, dashVars, bootVars, storeVars, selVars, csmVars,
                     modalVars, paneVars>>

(***************************************************************************)
(* Bounds of the model.                                                    *)
(***************************************************************************)
MaxPromises == 2

(***************************************************************************)
(* JavaScript values.                                                      *)
(***************************************************************************)
\* No own property under the key.
Absent == "absent"
Undefined == "undefined"
Null == "null"
\* Object.prototype.constructor, which every object literal inherits.
ObjectFn == "function Object"

\* The values a caller registers: two truthy ones and the number 0, which
\* is falsy but neither null nor undefined.
Values == {"v1", "v2", "zero"}
\* The keys callers use: two ordinary names and one that Object.prototype
\* also defines.
Keys == {"a", "b", "constructor"}

JSVal(s) == [kind |-> "value", val |-> s, fut |-> 0]
Future(n) == [kind |-> "future", val |-> "", fut |-> n]
This == [kind |-> "this", val |-> "", fut |-> 0]

\* ToBoolean: a Promise object is truthy; 0, null and undefined are not.
Truthy(x) == x.kind # "value" \/ x.val \notin {"zero", Null, Undefined}

\* What an object literal `{}` yields for a key it has no own property for.
Inherited(key) == IF key = "constructor" THEN ObjectFn ELSE Undefined

\* this.items[key]
ItemsLookup(its, key) ==
    IF its[key] # Absent THEN JSVal(its[key]) ELSE JSVal(Inherited(key))

\* this.promises[key]
PromisesLookup(prs, key) ==
    IF prs[key] # 0 THEN Future(prs[key]) ELSE JSVal(Inherited(key))

\* The members of q whose slice_id is in ids, in q's order.
RECURSIVE SelectFrom(_, _)
SelectFrom(q, ids) ==
    IF q = <<>> THEN <<>>
    ELSE (IF Head(q).slice_id \in ids THEN <<Head(q)>> ELSE <<>>)
         \o SelectFrom(Tail(q), ids)

(***************************************************************************)
(* The bootstrap payload that getInitialState receives.                    *)
(***************************************************************************)
\* The largest number of slices of a dashboard.
MaxSlices == 5

\* JSON texts, written without their quotes: a text that is no JSON, the
\* text of null, and two filter descriptions.
TextBad == "{1:"
TextNull == "null"
TextOne == "{1:{g:[p,q]}}"
TextTwo == "{2:{__from:t},3:{g:[p]}}"
\* dashboard_data.metadata is missing altogether.
NoMetadata == "no metadata"

\* getParam('preselect_filters'): null without the parameter, else its text.
ParamIn == {Null, "", TextBad, TextOne}
\* dashboard.metadata.default_filters
DefaultIn == {NoMetadata, Undefined, "", TextBad, TextNull, TextTwo}
\* The properties of bootstrapData.common.
CommonIn == {{"conf"} \cup locale : locale \in SUBSET {"locale", "language_pack"}}

\* slice.form_data: `set` names the options the slice sets itself.
FormDataOf(id) ==
    IF id = 1 THEN [set |-> {"groupby"}, groupby |-> {"g"}, row_limit |-> 0]
    ELSE IF id = 2 THEN [set |-> {"row_limit"}, groupby |-> {}, row_limit |-> 50]
    ELSE [set |-> {}, groupby |-> {}, row_limit |-> 0]

BootSlice(id) == [slice_id |-> id, form_data |-> FormDataOf(id)]

\* An entry of position_json for a slice; none of them is a default position.
BootPosition(id) ==
    [slice_id |-> id, col |-> id + 6, row |-> id * 3, size_x |-> id + 1,
     size_y |-> 7 - id]

\* The slices of a payload: n slices, with their ids ascending or descending.
SlicesIn ==
    {[k \in 1..n |-> BootSlice(k)] : n \in 0..MaxSlices}
    \cup {[k \in 1..n |-> BootSlice(n + 1 - k)] : n \in 0..MaxSlices}

\* position_json: null, or the entries of some slices, in either order.
PositionsIn(n) ==
    {[has |-> FALSE, entries |-> <<>>]}
    \cup {[has |-> TRUE, entries |-> q] :
            q \in {SelectFrom([k \in 1..n |-> BootPosition(k)], ids) :
                     ids \in SUBSET (1..n)}
                  \cup {SelectFrom([k \in 1..n |-> BootPosition(n + 1 - k)], ids) :
                          ids \in SUBSET (1..n)}}

IdleBoot ==
    [param |-> Null, default_filters |-> Undefined, common |-> {"conf"},
     slices |-> <<>>, position_json |-> [has |-> FALSE, entries |-> <<>>]]

\* getInitialState has not been called.
NotCalled == [done |-> FALSE]

\* The composite store after createStore: one root object, holding the first
\* charts state and the first dashboard state.
Store0 ==
    [objs |-> <<[charts |-> 1, dashboard |-> 1]>>, root |-> 1, prevRoot |-> 1,
     chartsMade |-> 1, chartsRet |-> 1]

\* A SelectFilter as mounted: clearFilterSelect selected, optionsCache.current
\* null (<<>>), no loadOptions call made. It renders the AsyncSelect, and so
\* has a loadOptions, only with a fetchSelects prop.
CLEAR_SELECT_FILTER_VALUE == "CLEAR_SELECT_FILTER_VALUE"

Sel0 ==
    [fetchSelects |-> TRUE, initialValue |-> "undefined",
     selectedOption |-> CLEAR_SELECT_FILTER_VALUE,
     cache |-> <<>>, fetches |-> 0, calls |-> <<>>]

\* new ColorSchemeManager(): no scheme, no default; `last` is the last call
\* made on it, with the default it found and what it returned.
SchemeNames == {"bnbColors", "d3Category10", "lyftColors"}

NoSchemeCall ==
    [op |-> "new", name |-> "undefined", found |-> "undefined",
     out |-> "undefined"]

Csm0 ==
    [schemes |-> [n \in SchemeNames |-> "absent"],
     defaultSchemeName |-> "undefined",
     last |-> NoSchemeCall]

\* The AlertReportModal opened to add an alert, after its first renders: the
\* currentAlert that the initialisation sets, and disableSave as the
\* validation effect of the mount leaves it.
Modal0 ==
    [currentAlert |-> [name |-> "", owners |-> <<>>, database |-> "undefined",
                       sql |-> "", operation |-> "undefined",
                       threshold |-> "undefined", crontab |-> "",
                       dashboard |-> "undefined", chart |-> "undefined"],
     disableSave |-> TRUE]

\* A DataTablesPane after its mount: the effect has issued the two requests
\* for the first queryFormData (numbered 1) and set both loading flags;
\* data and error are NULLISH_RESULTS_STATE.
Pane0 ==
    [queryFormData |-> 1,
     requests |-> <<[formData |-> 1, resultType |-> "results", pc |-> "pending"],
                    [formData |-> 1, resultType |-> "samples", pc |-> "pending"]>>,
     data |-> [results |-> 0, samples |-> 0],
     error |-> [results |-> 0, samples |-> 0],
     isLoading |-> [results |-> TRUE, samples |-> TRUE]]

\* A list view without filters, on its first page, nothing called yet.
NoListCall ==
    [op |-> "none", index |-> 0, value |-> "undefined", same |-> TRUE,
     internalFilters |-> <<>>, filters |-> <<>>, pageIndex |-> 0]

Lv0 ==
    [internalFilters |-> <<>>, filters |-> <<>>, pageIndex |-> 0,
     last |-> NoListCall]

\* The components no call was made on.
IdleElsewhere ==
    /\ store = Store0
    /\ sel = Sel0
    /\ csm = Csm0
    /\ modal = Modal0
    /\ pane = Pane0
    /\ lv = Lv0

IdleBesideSelect ==
    /\ csm = Csm0
    /\ modal = Modal0
    /\ pane = Pane0
    /\ lv = Lv0

IdleBesideSchemes ==
    /\ sel = Sel0
    /\ modal = Modal0
    /\ pane = Pane0
    /\ lv = Lv0

IdleBesideModal ==
    /\ sel = Sel0
    /\ csm = Csm0
    /\ pane = Pane0
    /\ lv = Lv0

IdleBesidePane ==
    /\ sel = Sel0
    /\ csm = Csm0
    /\ modal = Modal0
    /\ lv = Lv0

IdleBesideListView ==
    /\ sel = Sel0
    /\ csm = Csm0
    /\ modal = Modal0
    /\ pane = Pane0

(***************************************************************************)
(* Registry                                                                *)
(***************************************************************************)
\* has(key)
Has(its, key) ==
    LET item == ItemsLookup(its, key)
    IN  item.val # Null /\ item.val # Undefined

\* get(key)
Get(its, key) ==
    LET item == ItemsLookup(its, key)
    IN  IF Truthy(item) THEN item ELSE JSVal(Null)

\* register: this.items[key] = value
RegisterItems(its, key, value) == [its EXCEPT ![key] = value]

\* A register that forgets to drop the memoized future.
RegisterPromisesKeep(prs, key) == prs

\* register: delete this.promises[key]
RegisterPromises(prs, key) == [prs EXCEPT ![key] = 0]

\* A register that re-resolves the memoized future instead of leaving the
\* futures alone.
RegisterHeapRewrite(hp, prs, key, value) ==
    IF prs[key] # 0
    THEN [hp EXCEPT ![prs[key]] = [state |-> "fulfilled", value |-> value]]
    ELSE hp

\* register creates and changes no Promise object.
RegisterHeap(hp, prs, key, value) == hp

\* A getAsPromise that does not cache the future it makes.
MemoizeNot(prs, key, p) == prs

\* getAsPromise: this.promises[key] = newPromise
Memoize(prs, key, p) == [prs EXCEPT ![key] = p]

\* Promise.resolve(item)
PromiseResolve(item) == [state |-> "fulfilled", value |-> item.val]

\* Promise.reject(`Item with key "${key}" is not registered.`): the reason
\* is the message, which is determined by the key it quotes.
PromiseReject(key) == [state |-> "rejected", value |-> key]

\* The branch getAsPromise takes.
GetAsPromiseBranch(its, prs, key) ==
    IF Truthy(PromisesLookup(prs, key)) THEN "memo"
    ELSE IF Truthy(Get(its, key)) THEN "new"
    ELSE "reject"

\* A returned value is a future that resolves to v.
ResolvesTo(hp, x, v) ==
    /\ x.kind = "future"
    /\ hp[x.fut] = [state |-> "fulfilled", value |-> v]

\* A returned value is a future rejected with the message for key.
RejectedFor(hp, x, key) ==
    /\ x.kind = "future"
    /\ hp[x.fut] = [state |-> "rejected", value |-> key]

NoRet == [op |-> "new", key |-> "", arg |-> "", out |-> This, branch |-> ""]

\* new Registry(), beside a dashboard store that nothing is dispatched to.
InitRegistry ==
    /\ items = [k \in Keys |-> Absent]
    /\ promises = [k \in Keys |-> 0]
    /\ heap = <<>>
    /\ ret = NoRet
    /\ registered = {}
    /\ handed = [k \in Keys |-> {}]
    /\ issued = <<>>
    /\ regen = [k \in Keys |-> FALSE]
    /\ roots = <<>>
    /\ fobjs = <<>>
    /\ cur = 0
    /\ last = 0
    /\ boot = IdleBoot
    /\ init = NotCalled
    /\ IdleElsewhere

\* Registry, store and bootstrap as no call has touched them.
IdleCore ==
    /\ items = [k \in Keys |-> Absent]
    /\ promises = [k \in Keys |-> 0]
    /\ heap = <<>>
    /\ ret = NoRet
    /\ registered = {}
    /\ handed = [k \in Keys |-> {}]
    /\ issued = <<>>
    /\ regen = [k \in Keys |-> FALSE]
    /\ roots = <<>>
    /\ fobjs = <<>>
    /\ cur = 0
    /\ last = 0
    /\ boot = IdleBoot
    /\ init = NotCalled
    /\ store = Store0

DoHas(key) ==
    /\ ret' = [op |-> "has", key |-> key, arg |-> "",
               out |-> JSVal(IF Has(items, key) THEN "true" ELSE "false"),
               branch |-> ""]
    /\ UNCHANGED <<items, promises, heap, registered, handed, issued, regen>>
    /\ UNCHANGED besideRegistry

DoGet(key) ==
    /\ ret' = [op |-> "get", key |-> key, arg |-> "",
               out |-> Get(items, key), branch |-> ""]
    /\ UNCHANGED <<items, promises, heap, registered, handed, issued, regen>>
    /\ UNCHANGED besideRegistry

DoRegister(key, value) ==
    /\ items' = RegisterItems(items, key, value)
    /\ promises' = RegisterPromises(promises, key)
    /\ heap' = RegisterHeap(heap, promises, key, value)
    /\ ret' = [op |-> "register", key |-> key, arg |-> value, out |-> This,
               branch |-> ""]
    /\ registered' = registered \cup {key}
    /\ handed' = [handed EXCEPT ![key] = {}]
    /\ regen' = [regen EXCEPT ![key] = @ \/ handed[key] # {}]
    /\ UNCHANGED issued
    /\ UNCHANGED besideRegistry

DoGetAsPromise(key) ==
    LET branch == GetAsPromiseBranch(items, promises, key)
        p == Len(heap) + 1
    IN  \/ /\ branch = "memo"
           /\ UNCHANGED besideRegistry
           /\ ret' = [op |-> "getAsPromise", key |-> key, arg |-> "",
                      out |-> PromisesLookup(promises, key),
                      branch |-> branch]
           /\ handed' = IF promises[key] # 0
                        THEN [handed EXCEPT ![key] = @ \cup {promises[key]}]
                        ELSE handed
           /\ UNCHANGED <<items, promises, heap, registered, issued, regen>>
        \/ /\ branch = "new"
           /\ UNCHANGED besideRegistry
           /\ Len(heap) < MaxPromises
           /\ heap' = Append(heap, PromiseResolve(Get(items, key)))
           /\ promises' = Memoize(promises, key, p)
           /\ ret' = [op |-> "getAsPromise", key |-> key, arg |-> "",
                      out |-> Future(p), branch |-> branch]
           /\ handed' = [handed EXCEPT ![key] = @ \cup {p}]
           /\ issued' = Append(issued, [key |-> key, value |-> items[key],
                                     item |-> items[key]])
           /\ UNCHANGED <<items, registered, regen>>
        \/ /\ branch = "reject"
           /\ UNCHANGED besideRegistry
           /\ Len(heap) < MaxPromises
           /\ heap' = Append(heap, PromiseReject(key))
           /\ ret' = [op |-> "getAsPromise", key |-> key, arg |-> "",
                      out |-> Future(p), branch |-> branch]
           /\ issued' = Append(issued, [key |-> key, value |-> Absent,
                                     item |-> items[key]])
           /\ UNCHANGED <<items, promises, registered, handed, regen>>


CallHas == \E key \in Keys : DoHas(key)

CallGet == \E key \in Keys : DoGet(key)

CallRegister == \E key \in Keys, value \in Values : DoRegister(key, value)

CallGetAsPromise == \E key \in Keys : DoGetAsPromise(key)

RegNext ==
    \/ CallHas
    \/ CallGet
    \/ CallRegister
    \/ CallGetAsPromise

(***************************************************************************)
(* Dashboard reducer: the data.                                            *)
(***************************************************************************)
\* The number of actions dispatched in one run of the store.
MaxDispatch == 1

\* The ids of the dashboard's slices, and the ids an action or a preselected
\* filter may carry (3 is the id of no slice of the dashboard).
SliceIds == {1, 2}
FilterIds == {1, 2, 3}
\* Column names: g is a group-by column of slice 1, x is a column of no
\* group-by list, __from is one of the fixed filter keys.
Cols == {"g", "x", "__from"}

\* String(n)
StringOf(n) ==
    CASE n = 1 -> "1" [] n = 2 -> "2" [] n = 3 -> "3" [] n = 4 -> "4"
      [] n = 5 -> "5" [] n = 6 -> "6" [] n = 7 -> "7" [] n = 8 -> "8"
      [] n = 9 -> "9" [] OTHER -> "0"

BoolStr(b) == IF b THEN "true" ELSE "false"

\* A filter value: none (undefined), an array of strings, or a string.
NoVal == [t |-> "none", l |-> <<>>, s |-> ""]
ListVal(l) == [t |-> "list", l |-> l, s |-> ""]
ScalarVal(s) == [t |-> "scalar", l |-> <<>>, s |-> s]

\* The characters of a string (the strings of the model have at most one).
Chars(s) == IF s = "" THEN <<>> ELSE <<s>>

\* The elements d3.merge and indexOf see in an array-like value: the members
\* of an array, the characters of a string.
AsElems(v) == IF v.t = "list" THEN v.l ELSE Chars(v.s)

Range(q) == {q[i] : i \in 1..Len(q)}

\* What filters[sliceId] holds: a plain object (column -> value, and the
\* index properties copied from an array), an array, or a string.
EmptyCols == [c \in Cols |-> NoVal]
EmptyFObj == [kind |-> "object", cols |-> EmptyCols, elems |-> <<>>, str |-> ""]
ArrayFObj(e) == [kind |-> "array", cols |-> EmptyCols, elems |-> e, str |-> ""]
StringFObj(s) == [kind |-> "string", cols |-> EmptyCols, elems |-> <<>>, str |-> s]

\* A filters object: slice id -> reference to its filter object, 0 for none.
EmptyFilters == [id \in FilterIds |-> 0]

Slice1 == [slice_id |-> 1, slice_name |-> "one", groupby |-> {"g"}]
Slice2 == [slice_id |-> 2, slice_name |-> "two", groupby |-> {}]
LayoutItem(id, x, y) == [i |-> StringOf(id), x |-> x, y |-> y, w |-> 4, h |-> 4]
Layout0 == <<LayoutItem(1, 0, 0), LayoutItem(2, 4, 0)>>
Dashboard0 ==
    [dashboard_title |-> "T", layout |-> Layout0, slices |-> <<Slice1, Slice2>>,
     expanded |-> {}]

\* A state object of the reducer: `own` names the properties it has.
EmptyObject ==
    [own |-> {}, dashboard |-> Dashboard0, filters |-> EmptyFilters,
     filter |-> EmptyFilters, refresh |-> Undefined, isStarred |-> Undefined]
State0(filters) ==
    [EmptyObject EXCEPT !.own = {"dashboard", "filters"}, !.filters = filters]

\* The state has the shape getInitialState gives it.
WellFormed(st) == {"dashboard", "filters"} \subseteq st.own

\* The action types of ./actions that the reducer handles.
HandledTypes ==
    {"UPDATE_DASHBOARD_TITLE", "UPDATE_DASHBOARD_LAYOUT", "REMOVE_SLICE",
     "TOGGLE_FAVE_STAR", "TOGGLE_EXPAND_SLICE", "ADD_FILTER", "CLEAR_FILTER",
     "REMOVE_FILTER", "UPDATE_SLICE_NAME"}
\* Types the reducer has no handler for: the store's own initial action, an
\* action of the charts reducer, and a name Object.prototype defines.
OtherTypes == {"@@redux/INIT", "CHART_UPDATE_STARTED", "constructor"}

filterKeys ==
    {"__from", "__to", "__time_col", "__time_grain", "__time_origin",
     "__granularity"}

BaseAction ==
    [type |-> "", sliceId |-> 0, col |-> "", vals |-> NoVal, merge |-> FALSE,
     refresh |-> FALSE, title |-> "", layout |-> <<>>, flag |-> FALSE,
     name |-> ""]

\* The values an action carries.
ValsIn == {ListVal(<<"p">>), ListVal(<<>>), ScalarVal("t")}
TitlesIn == {"U"}
LayoutsIn == {<<>>, <<LayoutItem(2, 0, 0), LayoutItem(1, 4, 0)>>}
NamesIn == {"renamed"}

\* What one call of the reducer did: it threw, it returned the state it was
\* given, or it returned the new object `root`; `fobjs` are the filter
\* objects after the call.
Threw(fo) == [threw |-> TRUE, same |-> FALSE, root |-> EmptyObject, fobjs |-> fo]
Same(fo) == [threw |-> FALSE, same |-> TRUE, root |-> EmptyObject, fobjs |-> fo]
New(root, fo) == [threw |-> FALSE, same |-> FALSE, root |-> root, fobjs |-> fo]

(***************************************************************************)
(* Dashboard reducer: the handlers.                                        *)
(***************************************************************************)
\* Array.prototype.filter, keeping the order.
RECURSIVE FilterSeq(_, _)
FilterSeq(q, keep) ==
    IF q = <<>> THEN <<>>
    ELSE (IF Head(q) \in keep THEN <<Head(q)>> ELSE <<>>)
         \o FilterSeq(Tail(q), keep)

\* reduxUtils.removeFromArr(state, 'slices', obj, 'slice_id'): a copy of the
\* object whose array lacks the items with obj's id.
removeFromArr(dash, sliceId) ==
    [dash EXCEPT !.slices =
        FilterSeq(dash.slices, {s \in Range(dash.slices) : s.slice_id # sliceId})]

\* reduxUtils.alterInArr(state, 'slices', obj, alterations, 'slice_id'): a
\* copy of the object in whose array the items with obj's id are replaced by
\* altered copies.
alterInArr(dash, sliceId, name) ==
    [dash EXCEPT !.slices =
        [i \in 1..Len(dash.slices) |->
            IF dash.slices[i].slice_id = sliceId
            THEN [dash.slices[i] EXCEPT !.slice_name = name]
            ELSE dash.slices[i]]]

\* `type in actionHandlers`: the object literal's own keys, and the names
\* it inherits from Object.prototype.
InActionHandlers(type) == type \in HandledTypes \/ Inherited(type) # Undefined

UpdateDashboardTitle(st, fo, a) ==
    New([st EXCEPT !.dashboard.dashboard_title = a.title,
                   !.own = @ \cup {"dashboard"}], fo)

UpdateDashboardLayout(st, fo, a) ==
    New([st EXCEPT !.dashboard.layout = a.layout,
                   !.own = @ \cup {"dashboard"}], fo)

RemoveSlice(st, fo, a) ==
    LET newLayout ==
            FilterSeq(st.dashboard.layout,
                      {p \in Range(st.dashboard.layout) :
                          p.i # StringOf(a.sliceId)})
        newDashboard == removeFromArr(st.dashboard, a.sliceId)
    IN  New([st EXCEPT !.dashboard = [newDashboard EXCEPT !.layout = newLayout],
                       !.own = @ \cup {"dashboard"}], fo)

ToggleFaveStar(st, fo, a) ==
    New([st EXCEPT !.isStarred = BoolStr(a.flag),
                   !.own = @ \cup {"isStarred"}], fo)

ToggleExpandSlice(st, fo, a) ==
    LET updatedExpandedSlices ==
            IF a.flag THEN st.dashboard.expanded \cup {a.sliceId}
            ELSE st.dashboard.expanded \ {a.sliceId}
    IN  New([st EXCEPT !.dashboard.expanded = updatedExpandedSlices,
                       !.own = @ \cup {"dashboard"}], fo)

\* ToBoolean of what filters[sliceId] holds: only the empty string is falsy.
TruthyFObj(f) == ~(f.kind = "string" /\ f.str = "")

\* Object.assign({}, filters[sliceId], { [col]: vals }); a string source
\* reaches it only when empty, and then has nothing to copy.
AssignCol(f, col, vals) ==
    [kind |-> "object",
     cols |-> [f.cols EXCEPT ![col] = vals],
     elems |-> f.elems,
     str |-> ""]

\* The value ADD_FILTER stores under filters[sliceId] (lines 136-145).
NewFilter(f, col, vals, merge) ==
    LET inF == f.kind = "object" /\ f.cols[col] # NoVal
    IN  IF (TruthyFObj(f) /\ ~inF) \/ ~merge
        THEN AssignCol(f, col, vals)
        ELSE IF f.cols[col].t = "list"
        THEN ArrayFObj(f.cols[col].l \o AsElems(vals))
        ELSE \* d3.merge([[existing], vals])[0] || ''
             StringFObj(f.cols[col].s)

\* An ADD_FILTER that takes a filter on any column.
AcceptedAlways(col, selectedSlice) == TRUE

\* filterKeys.indexOf(col) >= 0 ||
\* selectedSlice.formData.groupby.indexOf(col) !== -1
Accepted(col, selectedSlice) ==
    col \in filterKeys \/ col \in selectedSlice.groupby

\* ADD_FILTER once the slice is found (lines 126-148).
AddFilterFound(st, fo, a, selectedSlice) ==
    LET accepted == Accepted(a.col, selectedSlice)
        f == IF st.filters[a.sliceId] = 0 THEN EmptyFObj
             ELSE fo[st.filters[a.sliceId]]
        n == Len(fo) + 1
    IN  IF ~accepted
        THEN New([st EXCEPT !.refresh = BoolStr(a.refresh),
                            !.own = @ \cup {"filters", "refresh"}], fo)
        \* `col in filters[sliceId]` on a non-empty string is a TypeError
        ELSE IF f.kind = "string" /\ TruthyFObj(f) THEN Threw(fo)
        ELSE New([st EXCEPT !.filters[a.sliceId] = n,
                            !.refresh = BoolStr(a.refresh),
                            !.own = @ \cup {"filters", "refresh"}],
                 Append(fo, NewFilter(f, a.col, a.vals, a.merge)))

\* An ADD_FILTER without the early return: for a slice it does not find it
\* goes on to the final Object.assign.
AddFilterNoEarlyReturn(st, fo, a) ==
    LET selected == {s \in Range(st.dashboard.slices) : s.slice_id = a.sliceId}
    IN  IF selected = {}
        THEN New([st EXCEPT !.refresh = BoolStr(a.refresh),
                            !.own = @ \cup {"filters", "refresh"}], fo)
        ELSE AddFilterFound(st, fo, a, CHOOSE s \in selected : TRUE)

\* actionHandlers[ADD_FILTER]
AddFilter(st, fo, a) ==
    LET selected == {s \in Range(st.dashboard.slices) : s.slice_id = a.sliceId}
    IN  IF selected = {} THEN Same(fo)
        ELSE AddFilterFound(st, fo, a, CHOOSE s \in selected : TRUE)

ClearFilter(st, fo, a) ==
    LET newFilters == [st.filters EXCEPT ![a.sliceId] = 0]
    IN  New([st EXCEPT !.filter = newFilters, !.refresh = "true",
                       !.own = @ \cup {"filter", "refresh"}], fo)

\* vals.indexOf(v) < 0, for an array or a string vals.
NotIn(v, vals) == v \notin Range(AsElems(vals)) /\ ~(vals.t = "scalar" /\ v = "")

\* A REMOVE_FILTER that drops the filtered array instead of storing it.
RemoveFilterWriteNothing(fo, ref, col, kept) == fo

\* newFilters[sliceId][col] = a: the write goes to the object that
\* state.filters[sliceId] refers to, which the shallow copy shares.
RemoveFilterWrite(fo, ref, col, kept) ==
    [fo EXCEPT ![ref].cols[col] = ListVal(kept)]

RemoveFilter(st, fo, a) ==
    LET ref == st.filters[a.sliceId]
        f == fo[ref]
        v == f.cols[a.col]
        kept == FilterSeq(v.l, {x \in Range(v.l) : NotIn(x, a.vals)})
        result == [st EXCEPT !.filter = st.filters, !.refresh = "true",
                             !.own = @ \cup {"filter", "refresh"}]
    IN  IF ref = 0 THEN New(result, fo)
        \* `col in` a string is a TypeError
        ELSE IF f.kind = "string" THEN Threw(fo)
        ELSE IF f.kind = "array" \/ v = NoVal THEN New(result, fo)
        \* a string has no forEach
        ELSE IF v.t = "scalar" THEN Threw(fo)
        ELSE New(result, RemoveFilterWrite(fo, ref, a.col, kept))

UpdateSliceName(st, fo, a) ==
    New([st EXCEPT !.dashboard = alterInArr(st.dashboard, a.sliceId, a.name),
                   !.own = @ \cup {"dashboard"}], fo)

\* const dashboard = function (state = {}, action)
dashboard(st, fo, a) ==
    IF InActionHandlers(a.type)
    THEN CASE a.type = "UPDATE_DASHBOARD_TITLE" -> UpdateDashboardTitle(st, fo, a)
           [] a.type = "UPDATE_DASHBOARD_LAYOUT" -> UpdateDashboardLayout(st, fo, a)
           [] a.type = "REMOVE_SLICE" -> RemoveSlice(st, fo, a)
           [] a.type = "TOGGLE_FAVE_STAR" -> ToggleFaveStar(st, fo, a)
           [] a.type = "TOGGLE_EXPAND_SLICE" -> ToggleExpandSlice(st, fo, a)
           [] a.type = "ADD_FILTER" -> AddFilter(st, fo, a)
           [] a.type = "CLEAR_FILTER" -> ClearFilter(st, fo, a)
           [] a.type = "REMOVE_FILTER" -> RemoveFilter(st, fo, a)
           [] a.type = "UPDATE_SLICE_NAME" -> UpdateSliceName(st, fo, a)
           \* Object.prototype.constructor(): Object() returns a new {}
           [] OTHER -> New(EmptyObject, fo)
    ELSE Same(fo)

(***************************************************************************)
(* The store: it holds a reference to the current state and replaces it by *)
(* what the reducer returns; a reducer that throws leaves it in place.     *)
(***************************************************************************)
\* What a state object holds, its filter objects followed by reference.
Deref(fo, filters) ==
    [id \in FilterIds |-> IF filters[id] = 0 THEN <<>> ELSE <<fo[filters[id]]>>]

Contents(rts, fo, ref) ==
    [root |-> rts[ref],
     filters |-> Deref(fo, rts[ref].filters),
     filter |-> Deref(fo, rts[ref].filter)]

\* The filters a dashboard starts with: getInitialState takes them from the
\* parsed preselect_filters, so any JSON shape can be there.
InitFilters ==
    { [filters |-> EmptyFilters, fobjs |-> <<>>],
      [filters |-> [EmptyFilters EXCEPT ![1] = 1],
       fobjs |-> <<[EmptyFObj EXCEPT !.cols["g"] = ListVal(<<"p", "q">>)]>>],
      [filters |-> [EmptyFilters EXCEPT ![1] = 1, ![2] = 2],
       fobjs |-> <<[EmptyFObj EXCEPT !.cols["g"] = ListVal(<<"p">>),
                                     !.cols["__from"] = ScalarVal("t")],
                   [EmptyFObj EXCEPT !.cols["__from"] = ScalarVal("t")]>>],
      [filters |-> [EmptyFilters EXCEPT ![1] = 1, ![2] = 2],
       fobjs |-> <<StringFObj(""), ArrayFObj(<<"p">>)>>],
      [filters |-> [EmptyFilters EXCEPT ![1] = 1, ![3] = 2],
       fobjs |-> <<StringFObj("t"),
                   [EmptyFObj EXCEPT !.cols["g"] = ListVal(<<"p">>)]>>] }

NoCall ==
    [n |-> 0, action |-> BaseAction, threw |-> FALSE, prev |-> 0,
     before |-> Contents(<<EmptyObject>>, <<>>, 1)]

\* The store after createStore, beside a Registry that nothing is called on.
InitDashboard ==
    /\ \E start \in InitFilters :
          /\ roots = <<State0(start.filters)>>
          /\ fobjs = start.fobjs
    /\ cur = 1
    /\ last = NoCall
    /\ items = [k \in Keys |-> Absent]
    /\ promises = [k \in Keys |-> 0]
    /\ heap = <<>>
    /\ ret = NoRet
    /\ registered = {}
    /\ handed = [k \in Keys |-> {}]
    /\ issued = <<>>
    /\ regen = [k \in Keys |-> FALSE]
    /\ boot = IdleBoot
    /\ init = NotCalled
    /\ IdleElsewhere

\* chart/chartReducer: the charts sub-reducer, by the identity of what it
\* returns: a new charts state for the actions it handles, its input for
\* every other action.
ChartTypes == {"CHART_UPDATE_STARTED"}

charts(st, a) ==
    IF a.type \in ChartTypes THEN st.chartsMade + 1 ELSE st.objs[st.root].charts

\* redux combineReducers: the root object is replaced by a new one built
\* from what the sub-reducers returned when one of them returned another
\* object than it was given, and is returned itself otherwise.
Combine(st, nextCharts, nextDashboard) ==
    LET hasChanged == \/ nextCharts # st.objs[st.root].charts
                      \/ nextDashboard # st.objs[st.root].dashboard
    IN  [st EXCEPT !.objs = IF hasChanged
                            THEN Append(@, [charts |-> nextCharts,
                                            dashboard |-> nextDashboard])
                            ELSE @,
                   !.root = IF hasChanged THEN Len(st.objs) + 1 ELSE @,
                   !.prevRoot = st.root,
                   !.chartsMade = IF nextCharts > @ THEN nextCharts ELSE @,
                   !.chartsRet = nextCharts]

\* A root reducer that builds a new root object on every action.
rootReducerAlwaysNew(st, a, nextDashboard) ==
    [st EXCEPT !.objs = Append(@, [charts |-> charts(st, a),
                                   dashboard |-> nextDashboard]),
               !.root = Len(st.objs) + 1,
               !.prevRoot = st.root,
               !.chartsMade = IF charts(st, a) > @ THEN charts(st, a) ELSE @,
               !.chartsRet = charts(st, a)]

\* export default combineReducers({ charts, dashboard })
rootReducer(st, a, nextDashboard) == Combine(st, charts(st, a), nextDashboard)

\* store.dispatch(action): state = rootReducer(state, action), the
\* dashboard slice going through dashboard(state.dashboard, action)
Dispatch(a) ==
    /\ last.n < MaxDispatch
    /\ WellFormed(roots[cur])
    /\ LET r == dashboard(roots[cur], fobjs, a)
       IN  /\ fobjs' = r.fobjs
           /\ roots' = IF r.threw \/ r.same THEN roots ELSE Append(roots, r.root)
           /\ cur' = IF r.threw \/ r.same THEN cur ELSE Len(roots) + 1
           /\ last' = [n |-> last.n + 1, action |-> a, threw |-> r.threw,
                       prev |-> cur, before |-> Contents(roots, fobjs, cur)]
           /\ store' = IF r.threw THEN store
                       ELSE rootReducer(store, a,
                                        IF r.same THEN cur ELSE Len(roots) + 1)
    /\ UNCHANGED besideDashboard

DispatchUpdateDashboardTitle ==
    \E title \in TitlesIn :
        Dispatch([BaseAction EXCEPT !.type = "UPDATE_DASHBOARD_TITLE",
                                    !.title = title])

DispatchUpdateDashboardLayout ==
    \E layout \in LayoutsIn :
        Dispatch([BaseAction EXCEPT !.type = "UPDATE_DASHBOARD_LAYOUT",
                                    !.layout = layout])

DispatchRemoveSlice ==
    \E id \in FilterIds :
        Dispatch([BaseAction EXCEPT !.type = "REMOVE_SLICE", !.sliceId = id])

DispatchToggleFaveStar ==
    \E flag \in BOOLEAN :
        Dispatch([BaseAction EXCEPT !.type = "TOGGLE_FAVE_STAR", !.flag = flag])

DispatchToggleExpandSlice ==
    \E id \in SliceIds, flag \in BOOLEAN :
        Dispatch([BaseAction EXCEPT !.type = "TOGGLE_EXPAND_SLICE",
                                    !.sliceId = id, !.flag = flag])

DispatchAddFilter ==
    \E id \in FilterIds, col \in Cols, vals \in ValsIn, merge \in BOOLEAN,
       refresh \in BOOLEAN :
        Dispatch([BaseAction EXCEPT !.type = "ADD_FILTER", !.sliceId = id,
                                    !.col = col, !.vals = vals,
                                    !.merge = merge, !.refresh = refresh])

DispatchClearFilter ==
    \E id \in FilterIds :
        Dispatch([BaseAction EXCEPT !.type = "CLEAR_FILTER", !.sliceId = id])

DispatchRemoveFilter ==
    \E id \in FilterIds, col \in Cols, vals \in ValsIn :
        Dispatch([BaseAction EXCEPT !.type = "REMOVE_FILTER", !.sliceId = id,
                                    !.col = col, !.vals = vals])

DispatchUpdateSliceName ==
    \E id \in FilterIds, name \in NamesIn :
        Dispatch([BaseAction EXCEPT !.type = "UPDATE_SLICE_NAME",
                                    !.sliceId = id, !.name = name])

\* An action of a type the reducer has no handler for.
DispatchOther ==
    \E type \in OtherTypes : Dispatch([BaseAction EXCEPT !.type = type])

DashNext ==
    \/ DispatchUpdateDashboardTitle
    \/ DispatchUpdateDashboardLayout
    \/ DispatchRemoveSlice
    \/ DispatchToggleFaveStar
    \/ DispatchToggleExpandSlice
    \/ DispatchAddFilter
    \/ DispatchClearFilter
    \/ DispatchRemoveFilter
    \/ DispatchUpdateSliceName
    \/ DispatchOther

(***************************************************************************)
(* Specifications: the Registry on its own, and the dashboard store on its *)
(* own.                                                                    *)
(***************************************************************************)
SpecRegistry == InitRegistry /\ [][RegNext]_vars

SpecDashboard == InitDashboard /\ [][DashNext]_vars


(***************************************************************************)
(* Registry: the claims.                                                   *)
(***************************************************************************)
\* C1: after register(k, v), get(k) returns exactly v, and getAsPromise(k)
\* on a key registered with v returns a future that resolves to v.
C1_RegisterThenGetReturnsValue ==
    /\ ret.op = "register" => Get(items, ret.key) = JSVal(ret.arg)
    /\ ret.op = "getAsPromise" /\ ret.key \in registered
          => ResolvesTo(heap, ret.out, items[ret.key])

\* C2: once a future for k was handed out and k was registered again with
\* v2, every later getAsPromise(k) returns a future that resolves to the
\* value now registered, v2.
C2_AfterReRegisterResolvesToNew ==
    ret.op = "getAsPromise" /\ regen[ret.key]
        => ResolvesTo(heap, ret.out, items[ret.key])

\* C3: the successful getAsPromise(k) calls since the last register(k, _)
\* all returned one and the same future, which is the one still memoized,
\* whatever get, has and register calls on other keys came in between.
C3_OneFuturePerGeneration ==
    \A k \in Keys : handed[k] # {} => handed[k] = {promises[k]}

\* C3's case: a getAsPromise call was answered from the memo while another
\* key is registered as well.
C3_Witness ==
    /\ ret.op = "getAsPromise"
    /\ ret.branch = "memo"
    /\ ret.out.kind = "future"
    /\ ret.out.fut \in handed[ret.key]
    /\ registered \ {ret.key} # {}

\* C4: getAsPromise(k) for a key that was never registered returns a future
\* rejected with the "not registered" message that quotes k.
C4_UnregisteredIsRejected ==
    ret.op = "getAsPromise" /\ ret.key \notin registered
        => RejectedFor(heap, ret.out, ret.key)

\* C5: for every key never passed to register, get returns null and has
\* returns false.
C5_NeverRegisteredIsAbsent ==
    \A k \in Keys \ registered :
        Get(items, k) = JSVal(Null) /\ ~Has(items, k)

C7_MemoizedFutureIsCurrent ==
    \A k \in Keys :
        promises[k] # 0
            => /\ items[k] # Absent
               /\ heap[promises[k]] = [state |-> "fulfilled", value |-> items[k]]

\* C7's case: a future is memoized for a key that was registered again
\* after an earlier future had been handed out.
C7_Witness ==
    \E k \in Keys : promises[k] # 0 /\ regen[k] /\ promises[k] \in handed[k]

(***************************************************************************)
(* Dashboard reducer: the claims.                                          *)
(***************************************************************************)
\* C8: for an action whose type is none of the handled types, the reducer
\* returns the state it was given: the same reference, nothing changed.
C8_UnhandledTypeReturnsSameState ==
    last.n > 0 /\ last.action.type \notin HandledTypes
        => /\ ~last.threw
           /\ cur = last.prev
           /\ Contents(roots, fobjs, cur) = last.before

\* C9: after a handled action, the state object passed in holds what it
\* held before the call, its filter objects included.
C9_InputStateNotMutated ==
    last.n > 0 /\ last.action.type \in HandledTypes
        => Contents(roots, fobjs, last.prev) = last.before

\* C10: ADD_FILTER for a slice id that no slice of state.dashboard.slices
\* has returns the state it was given: the same reference, with filters,
\* refresh and everything else as before.
C10_AddFilterUnknownSliceIsIdentity ==
    /\ last.n > 0
    /\ last.action.type = "ADD_FILTER"
    /\ \A i \in 1..Len(last.before.root.dashboard.slices) :
          last.before.root.dashboard.slices[i].slice_id # last.action.sliceId
    => /\ ~last.threw
       /\ cur = last.prev
       /\ Contents(roots, fobjs, cur) = last.before

\* C10's case: ADD_FILTER was dispatched for slice 3, which the dashboard
\* does not have, with a column and values that a known slice would accept.
C10_Witness ==
    /\ last.n > 0
    /\ last.action.type = "ADD_FILTER"
    /\ last.action.sliceId = 3
    /\ last.action.col = "__from"
    /\ last.action.refresh
    /\ cur = last.prev

\* The slice of the input state that the last action names, if any.
LastSlices ==
    {s \in Range(last.before.root.dashboard.slices) :
        s.slice_id = last.action.sliceId}

\* What the input state held under filters[sliceId], and what the returned
\* state holds there (<<>> for no entry).
FilterBefore == last.before.filters[last.action.sliceId]
FilterAfter == Contents(roots, fobjs, cur).filters[last.action.sliceId]

\* C11: ADD_FILTER on an existing slice with a group-by column: with merge
\* and a list already there, filters[sliceId][col] is the prior list
\* followed by the new values; without merge it is exactly the new values.
C11_AddFilterMergeConcatenates ==
    /\ last.n > 0
    /\ last.action.type = "ADD_FILTER"
    /\ \E s \in LastSlices : last.action.col \in s.groupby
    /\ ~last.threw
    => /\ ( /\ last.action.merge
            /\ FilterBefore # <<>>
            /\ FilterBefore[1].kind = "object"
            /\ FilterBefore[1].cols[last.action.col].t = "list" )
          => /\ FilterAfter # <<>>
             /\ FilterAfter[1].kind = "object"
             /\ FilterAfter[1].cols[last.action.col] =
                   ListVal(FilterBefore[1].cols[last.action.col].l
                           \o AsElems(last.action.vals))
       /\ ~last.action.merge
          => /\ FilterAfter # <<>>
             /\ FilterAfter[1].kind = "object"
             /\ FilterAfter[1].cols[last.action.col] = last.action.vals

\* C12: ADD_FILTER on an existing slice with a column that is neither a
\* fixed filter key nor a group-by column of the slice leaves the filters
\* as they were: the returned state's filters equal the input state's.
C12_UnacceptedColumnKeepsFilters ==
    /\ last.n > 0
    /\ last.action.type = "ADD_FILTER"
    /\ LastSlices # {}
    /\ last.action.col \notin filterKeys
    /\ \A s \in LastSlices : last.action.col \notin s.groupby
    => /\ ~last.threw
       /\ Contents(roots, fobjs, cur).filters = last.before.filters
       /\ Contents(roots, fobjs, last.prev) = last.before

\* C12's case: ADD_FILTER on column x of slice 1, which has filters, was
\* answered with a new state object.
C12_Witness ==
    /\ last.n > 0
    /\ last.action.type = "ADD_FILTER"
    /\ last.action.sliceId = 1
    /\ last.action.col = "x"
    /\ last.action.merge
    /\ FilterBefore # <<>>
    /\ cur # last.prev

\* C13: an accepted ADD_FILTER with merge where the slice's value for the
\* column is a string stores, for that column, the list of that string
\* followed by the new values, or the empty string when that list is empty.
C13_AddFilterMergeBoxesScalar ==
    /\ last.n > 0
    /\ last.action.type = "ADD_FILTER"
    /\ \E s \in LastSlices : Accepted(last.action.col, s)
    /\ last.action.merge
    /\ FilterBefore # <<>>
    /\ FilterBefore[1].kind = "object"
    /\ FilterBefore[1].cols[last.action.col].t = "scalar"
    => /\ ~last.threw
       /\ FilterAfter # <<>>
       /\ FilterAfter[1].kind = "object"
       /\ LET boxed == <<FilterBefore[1].cols[last.action.col].s>>
                       \o AsElems(last.action.vals)
          IN  FilterAfter[1].cols[last.action.col] =
                 IF boxed = <<>> THEN ScalarVal("") ELSE ListVal(boxed)

\* C14: after CLEAR_FILTER with sliceId the returned state's filters have
\* no entry for sliceId, the entries of the other slices are as before,
\* and refresh is true.
C14_ClearFilterDropsEntry ==
    last.n > 0 /\ last.action.type = "CLEAR_FILTER"
    => /\ ~last.threw
       /\ Contents(roots, fobjs, cur).filters =
             [last.before.filters EXCEPT ![last.action.sliceId] = <<>>]
       /\ roots[cur].refresh = "true"

(***************************************************************************)
(* getInitialState                                                         *)
(***************************************************************************)
\* JSON.parse of the texts above: whether it parsed, and the properties of
\* the object it gave, in order (null has none to iterate over).
JSONParse(text) ==
    CASE text = TextOne ->
           [ok |-> TRUE,
            entries |-> <<[key |-> "1",
                           val |-> [EmptyFObj EXCEPT
                                       !.cols["g"] = ListVal(<<"p", "q">>)]]>>]
      [] text = TextTwo ->
           [ok |-> TRUE,
            entries |-> <<[key |-> "2",
                           val |-> [EmptyFObj EXCEPT
                                       !.cols["__from"] = ScalarVal("t")]],
                          [key |-> "3",
                           val |-> [EmptyFObj EXCEPT
                                       !.cols["g"] = ListVal(<<"p">>)]]>>]
      [] text = TextNull -> [ok |-> TRUE, entries |-> <<>>]
      [] OTHER -> [ok |-> FALSE, entries |-> <<>>]

\* parseInt(key, 10)
ParseInt(key) ==
    CASE key = "1" -> 1 [] key = "2" -> 2 [] key = "3" -> 3 [] OTHER -> 0

\* No filters: `const filters = {}`.
NoFilters == [id \in FilterIds |-> <<>>]

\* for (const key in filterData) filters[parseInt(key, 10)] = filterData[key]
RECURSIVE FillFilters(_, _)
FillFilters(filters, entries) ==
    IF entries = <<>> THEN filters
    ELSE FillFilters([filters EXCEPT ![ParseInt(Head(entries).key)] =
                                         <<Head(entries).val>>],
                     Tail(entries))

\* The body of the try block (line 19): the parameter if it is truthy, else
\* the metadata's default, then JSON.parse; `threw` when reading the default
\* of a missing metadata or the parse throws.
FilterData(param, default) ==
    LET useParam == param \notin {Null, Undefined, ""}
        text == IF useParam THEN param ELSE default
        parsed == JSONParse(text)
    IN  IF ~useParam /\ default = NoMetadata
        THEN [threw |-> TRUE, entries |-> <<>>]
        ELSE [threw |-> ~parsed.ok, entries |-> parsed.entries]

\* A filter parsing without the catch.
ParseFiltersNoCatch(param, default) ==
    LET data == FilterData(param, default)
    IN  [raised |-> data.threw,
         filters |-> IF data.threw THEN NoFilters
                     ELSE FillFilters(NoFilters, data.entries)]

\* Lines 16-26: try { ... } catch (e) { }
ParseFilters(param, default) ==
    LET data == FilterData(param, default)
    IN  [raised |-> FALSE,
         filters |-> IF data.threw THEN NoFilters
                     ELSE FillFilters(NoFilters, data.entries)]

\* dashboard.posDict[sliceId] after the forEach over position_json: the
\* last entry of the slice, <<>> for none.
PosDict(position_json, sliceId) ==
    LET hits == IF position_json.has
                THEN SelectFrom(position_json.entries, {sliceId})
                ELSE <<>>
    IN  IF hits = <<>> THEN <<>> ELSE <<hits[Len(hits)]>>

\* A default position whose row steps every four slices.
DefaultPosRowOfFour(index) ==
    [col |-> (index * 4 + 1) % 12, row |-> (index \div 4) * 4,
     size_x |-> 4, size_y |-> 4]

\* Lines 39-44, for the zero-based index.
DefaultPos(index) ==
    [col |-> (index * 4 + 1) % 12, row |-> (index \div 3) * 4,
     size_x |-> 4, size_y |-> 4]

\* Lines 47-54
LayoutEntry(sliceId, pos) ==
    [i |-> StringOf(sliceId), x |-> pos.col - 1, y |-> pos.row,
     w |-> pos.size_x, minW |-> 2, h |-> pos.size_y]

\* A layout that places every slice by its index.
InitLayoutByIndex(slices, position_json) ==
    [k \in 1..Len(slices) |-> LayoutEntry(slices[k].slice_id, DefaultPos(k - 1))]

\* Lines 35-55: dashboard.layout
InitLayout(slices, position_json) ==
    [k \in 1..Len(slices) |->
        LET pos == PosDict(position_json, slices[k].slice_id)
        IN  LayoutEntry(slices[k].slice_id,
                        IF pos = <<>> THEN DefaultPos(k - 1) ELSE pos[1])]

\* explore/stores/store.applyDefaultFormData: the options a slice does not
\* set get their defaults, those it sets pass through.
applyDefaultFormData(form_data) ==
    [groupby |-> IF "groupby" \in form_data.set THEN form_data.groupby ELSE {},
     row_limit |-> IF "row_limit" \in form_data.set THEN form_data.row_limit
                   ELSE 10000]

\* chart/chartReducer.chart: the defaults of a chart record.
chart == [chartKey |-> <<>>, chartStatus |-> "loading", queryResponse |-> Null]

\* 'slice_' + slice.slice_id
ChartKey(sliceId) == <<"slice_", StringOf(sliceId)>>

\* Lines 62-67: Object.assign({}, chart, { chartKey, slice_id, ... })
ChartRecord(slice) ==
    [chartKey |-> ChartKey(slice.slice_id),
     chartStatus |-> chart.chartStatus,
     queryResponse |-> chart.queryResponse,
     slice_id |-> slice.slice_id,
     form_data |-> slice.form_data,
     formData |-> applyDefaultFormData(slice.form_data)]

\* Charts keyed by the slice's place in the list.
InitChartsByIndex(slices) ==
    [key \in {ChartKey(k) : k \in 1..Len(slices)} |->
        LET k == CHOOSE k \in 1..Len(slices) : ChartKey(k) = key
        IN  ChartRecord(slices[k])]

\* Lines 58-68: initCharts; a later slice with the same key would replace
\* an earlier one.
InitCharts(slices) ==
    [key \in {ChartKey(s.slice_id) : s \in Range(slices)} |->
        LET k == CHOOSE k \in 1..Len(slices) :
                    /\ ChartKey(slices[k].slice_id) = key
                    /\ \A j \in (k + 1)..Len(slices) :
                          ChartKey(slices[j].slice_id) # key
        IN  ChartRecord(slices[k])]

\* A strip that forgets the language pack.
StripLocaleOnly(common) == common \ {"locale"}

\* Lines 12-13: delete common.locale; delete common.language_pack
StripLocale(common) == common \ {"locale", "language_pack"}

\* Lines 71-73: the slices of the state carry their formData.
InitSlices(slices) ==
    [k \in 1..Len(slices) |->
        [slice_id |-> slices[k].slice_id, form_data |-> slices[k].form_data,
         formData |-> applyDefaultFormData(slices[k].form_data)]]

\* The `common` of the returned state: the payload's own common object,
\* which the state holds by reference.
StateCommon == boot.common

\* The state getInitialState returns for the payload b (lines 75-78); its
\* common is the payload's own object and is read through StateCommon.
InitialState(b) ==
    LET parsed == ParseFilters(b.param, b.default_filters)
    IN  [raised |-> parsed.raised,
         filters |-> parsed.filters,
         layout |-> InitLayout(b.slices, b.position_json),
         slices |-> InitSlices(b.slices),
         charts |-> InitCharts(b.slices)]

\* export function getInitialState(bootstrapData)
CallGetInitialState ==
    /\ ~init.done
    /\ LET state == InitialState(boot)
       IN  /\ boot' = [boot EXCEPT !.common = StripLocale(@)]
           /\ init' = [done |-> TRUE,
                       before |-> boot,
                       raised |-> state.raised,
                       filters |-> state.filters,
                       layout |-> state.layout,
                       slices |-> state.slices,
                       charts |-> state.charts,
                       second |-> <<>>]
    /\ UNCHANGED besideBoot

\* getInitialState called once more on the same payload object; `second`
\* keeps what the payload's common held as that call began and the state
\* the call returned.
CallGetInitialStateAgain ==
    /\ init.done
    /\ init.second = <<>>
    /\ boot' = [boot EXCEPT !.common = StripLocale(@)]
    /\ init' = [init EXCEPT !.second = <<InitialState(boot)>>]
    /\ UNCHANGED besideBoot

\* A page load: some payload, some request parameter, nothing called yet.
InitBoot ==
    /\ \E param \in ParamIn, default \in DefaultIn, common \in CommonIn,
          slices \in SlicesIn :
          \E position_json \in PositionsIn(Len(slices)) :
             boot = [param |-> param, default_filters |-> default,
                     common |-> common, slices |-> slices,
                     position_json |-> position_json]
    /\ init = NotCalled
    /\ IdleElsewhere
    /\ items = [k \in Keys |-> Absent]
    /\ promises = [k \in Keys |-> 0]
    /\ heap = <<>>
    /\ ret = NoRet
    /\ registered = {}
    /\ handed = [k \in Keys |-> {}]
    /\ issued = <<>>
    /\ regen = [k \in Keys |-> FALSE]
    /\ roots = <<>>
    /\ fobjs = <<>>
    /\ cur = 0
    /\ last = 0

BootNext == CallGetInitialState \/ CallGetInitialStateAgain

SpecInitialState == InitBoot /\ [][BootNext]_vars

(***************************************************************************)
(* Claims about getInitialState                                            *)
(***************************************************************************)
\* The slices of the payload that position_json has no entry for, by their
\* place in the list (one-based).
Unplaced ==
    {k \in 1..Len(init.before.slices) :
        PosDict(init.before.position_json, init.before.slices[k].slice_id) = <<>>}

\* C15: the slice at zero-based index i with no explicit position entry gets
\* the default position col = (i*4 + 1) mod 12, row = floor(i/3) * 4,
\* size 4 by 4, so its layout entry has x = col - 1, y = row, w = 4, h = 4;
\* at i = 4 that is col 5 and row 4.
C15_DefaultPositionByIndex ==
    init.done =>
        /\ \A k \in Unplaced :
              LET i == k - 1
                  col == (i * 4 + 1) % 12
                  row == (i \div 3) * 4
              IN  /\ init.layout[k].x = col - 1
                  /\ init.layout[k].y = row
                  /\ init.layout[k].w = 4
                  /\ init.layout[k].h = 4
        /\ 5 \in Unplaced => init.layout[5].x = 5 - 1 /\ init.layout[5].y = 4

C15_Witness ==
    /\ init.done
    /\ 5 \in Unplaced
    /\ 4 \in Unplaced
    /\ init.layout[5].y = 4

\* C16: a slice whose slice_id has an entry in position_json gets its layout
\* entry from that entry (x = col - 1, y = row, w = size_x, h = size_y)
\* whatever its index, only the slices without an entry get the index-based
\* default, and the layout has one entry per slice, in slice order, with i
\* the slice id as a string.
C16_ExplicitPositionOverrides ==
    init.done =>
        /\ Len(init.layout) = Len(init.before.slices)
        /\ \A k \in 1..Len(init.before.slices) :
              LET sliceId == init.before.slices[k].slice_id
                  given == SelectFrom(init.before.position_json.entries, {sliceId})
              IN  /\ init.layout[k].i = StringOf(sliceId)
                  /\ k \notin Unplaced =>
                        /\ init.layout[k].x = given[1].col - 1
                        /\ init.layout[k].y = given[1].row
                        /\ init.layout[k].w = given[1].size_x
                        /\ init.layout[k].h = given[1].size_y
                  /\ k \in Unplaced =>
                        init.layout[k].x = DefaultPos(k - 1).col - 1

C16_Witness ==
    /\ init.done
    /\ Len(init.before.slices) >= 3
    /\ 3 \notin Unplaced
    /\ 2 \in Unplaced
    /\ init.before.slices[3].slice_id # 3
    /\ init.layout[3].w # 4

\* The request parameter is present and JSON.parse rejects it.
ParamUnparsable ==
    /\ init.before.param \notin {Null, Undefined, ""}
    /\ ~JSONParse(init.before.param).ok

\* The metadata's default is a filter description.
DefaultValid ==
    /\ init.before.default_filters # NoMetadata
    /\ JSONParse(init.before.default_filters).ok
    /\ JSONParse(init.before.default_filters).entries # <<>>

\* C17: when preselect_filters is present but cannot be parsed and the
\* metadata's default_filters is a valid filter description, the filters are
\* the parsed metadata default, keyed by slice id, and no error is raised.
C17_UnparsableParamFallsBackToDefault ==
    (init.done /\ ParamUnparsable /\ DefaultValid) =>
        /\ ~init.raised
        /\ init.filters =
              FillFilters(NoFilters, JSONParse(init.before.default_filters).entries)

\* Neither the parameter nor the default gives a filter description.
Useless(text) ==
    \/ text \in {Null, Undefined, "", NoMetadata}
    \/ ~JSONParse(text).ok

\* C18: whatever the request parameter and the metadata default contain,
\* filter parsing never raises to the caller, and when both are absent or
\* invalid the filters mapping is empty.
C18_FilterParsingNeverRaises ==
    init.done =>
        /\ ~init.raised
        /\ (Useless(init.before.param) /\ Useless(init.before.default_filters))
              => init.filters = NoFilters

C18_Witness ==
    /\ init.done
    /\ init.before.param = TextBad
    /\ init.before.default_filters = NoMetadata
    /\ init.filters = NoFilters

\* C19: the charts mapping has one record per slice of the payload and no
\* others; the record of the slice with id n is under the key 'slice_' + n
\* and carries that key as chartKey, n as slice_id and the slice's form data
\* on top of the chart defaults.
C19_OneChartPerSlice ==
    init.done =>
        /\ DOMAIN init.charts =
              {<<"slice_", StringOf(s.slice_id)>> : s \in Range(init.before.slices)}
        /\ Cardinality(DOMAIN init.charts) = Len(init.before.slices)
        /\ \A s \in Range(init.before.slices) :
              LET key == <<"slice_", StringOf(s.slice_id)>>
              IN  /\ init.charts[key].chartKey = key
                  /\ init.charts[key].slice_id = s.slice_id
                  /\ init.charts[key].form_data = s.form_data
                  /\ init.charts[key].chartStatus = chart.chartStatus
                  /\ init.charts[key].queryResponse = chart.queryResponse

C19_Witness ==
    /\ init.done
    /\ Len(init.before.slices) >= 2
    /\ init.before.slices[1].slice_id # 1
    /\ init.charts[<<"slice_", "2">>].slice_id = 2

\* C20: the common metadata of the resulting state holds neither locale nor
\* language_pack, whatever the payload held.
C20_CommonHasNoLocale ==
    init.done => StateCommon \cap {"locale", "language_pack"} = {}

C20_Witness ==
    /\ init.done
    /\ {"locale", "language_pack"} \subseteq init.before.common
    /\ "conf" \in StateCommon

\* The state the first call returned, without the bookkeeping fields.
FirstState ==
    [raised |-> init.raised, filters |-> init.filters, layout |-> init.layout,
     slices |-> init.slices, charts |-> init.charts]

\* C21: getInitialState is a pure function of the payload: the payload
\* (its common and its dashboard_data included) has the same contents after
\* the call as before it, and a second call on the same payload returns a
\* state equal to the first.
C21_GetInitialStateIsPure ==
    init.done =>
        /\ boot = init.before
        /\ init.second # <<>> => init.second[1] = FirstState

(***************************************************************************)
(* Claims about the composite store                                        *)
(***************************************************************************)
\* The root object the store held before the last action, and the one it
\* holds now.
PrevRoot == store.objs[store.prevRoot]
NowRoot == store.objs[store.root]

\* Neither sub-reducer returned another object than it was given.
NoSliceChanged ==
    /\ store.chartsRet = PrevRoot.charts
    /\ cur = PrevRoot.dashboard

\* C22: when neither the charts nor the dashboard sub-reducer returns a slice
\* different, by reference, from its input, the combined reducer returns the
\* root state itself; otherwise each named slice of the result is what its
\* sub-reducer returned for that slice and the action.
C22_CombinedReducerShortCircuits ==
    (last.n > 0 /\ ~last.threw) =>
        /\ NoSliceChanged => store.root = store.prevRoot
        /\ ~NoSliceChanged =>
              /\ store.root # store.prevRoot
              /\ NowRoot.charts = store.chartsRet
              /\ NowRoot.dashboard = cur

C22_Witness ==
    /\ last.n > 0
    /\ ~last.threw
    /\ last.action.type = "@@redux/INIT"
    /\ NoSliceChanged
    /\ store.root = store.prevRoot

(***************************************************************************)
(* Further claims about Registry                                           *)
(***************************************************************************)
\* The futures getAsPromise made for key k while k had no item: the calls
\* that were rejected before any registration of k.
RejectedEarly(k) ==
    {f \in 1..Len(issued) :
        issued[f] = [key |-> k, value |-> Absent, item |-> Absent]}

\* C23: a rejection is not memoized: after getAsPromise(k) was rejected for
\* the unregistered k and k was registered with v, a new getAsPromise(k)
\* resolves to v, and the future rejected earlier stays rejected.
C23_RejectionIsNotMemoized ==
    (/\ ret.op = "getAsPromise"
     /\ ret.key \in registered
     /\ RejectedEarly(ret.key) # {})
        => /\ ResolvesTo(heap, ret.out, items[ret.key])
           /\ \A f \in RejectedEarly(ret.key) : heap[f] = PromiseReject(ret.key)

(***************************************************************************)
(* Further claims about the dashboard reducer                              *)
(***************************************************************************)
\* C24: after REMOVE_FILTER with sliceId, col and vals, where the slice has
\* a list filter for col, the returned state's filters[sliceId][col] holds
\* the prior values that are not in vals, in their prior order; when the
\* slice or the column has no filter, the filters are as before.
C24_RemoveFilterKeepsOthers ==
    (last.n > 0 /\ last.action.type = "REMOVE_FILTER") =>
        /\ ( /\ FilterBefore # <<>>
             /\ FilterBefore[1].kind = "object"
             /\ FilterBefore[1].cols[last.action.col].t = "list" )
           => /\ ~last.threw
              /\ FilterAfter # <<>>
              /\ FilterAfter[1].kind = "object"
              /\ LET prior == FilterBefore[1].cols[last.action.col].l
                     gone == Range(AsElems(last.action.vals))
                 IN  FilterAfter[1].cols[last.action.col] =
                        ListVal(FilterSeq(prior, Range(prior) \ gone))
        /\ ( \/ FilterBefore = <<>>
             \/ /\ FilterBefore[1].kind = "object"
                /\ FilterBefore[1].cols[last.action.col] = NoVal )
           => /\ ~last.threw
              /\ Contents(roots, fobjs, cur).filters = last.before.filters

C24_Witness ==
    /\ last.n > 0
    /\ last.action.type = "REMOVE_FILTER"
    /\ last.action.vals = ListVal(<<"p">>)
    /\ FilterBefore # <<>>
    /\ FilterBefore[1].kind = "object"
    /\ FilterBefore[1].cols[last.action.col] = ListVal(<<"p", "q">>)
    /\ FilterAfter[1].cols[last.action.col] = ListVal(<<"q">>)

\* C25: an accepted ADD_FILTER for slice S and column C changes only the
\* value stored for (S, C): the filter entries of every other slice and the
\* values of every other column of S are in the returned state what they
\* were in the input state, with and without merge.
C25_AddFilterTouchesOneColumn ==
    (/\ last.n > 0
     /\ last.action.type = "ADD_FILTER"
     /\ \E s \in LastSlices : Accepted(last.action.col, s)
     /\ ~last.threw
     /\ FilterBefore # <<>> => FilterBefore[1].kind = "object")
    => /\ \A id \in FilterIds \ {last.action.sliceId} :
             Contents(roots, fobjs, cur).filters[id] = last.before.filters[id]
       /\ FilterAfter # <<>>
       /\ \A c \in Cols \ {last.action.col} :
             FilterAfter[1].cols[c] =
                IF FilterBefore = <<>> THEN NoVal ELSE FilterBefore[1].cols[c]

(***************************************************************************)
(* List-view SelectFilter (components/ListView/Filters): the loadOptions   *)
(* of its AsyncSelect, fetchAndFormatSelects, an async function that runs  *)
(* up to its await in the call and goes on when the fetch settles.         *)
(***************************************************************************)
MaxCalls == 3
\* What AsyncSelect passes as inputValue, and the initialValue props.
InputIn == {"", "x"}
InitialValueIn == {"undefined", CLEAR_SELECT_FILTER_VALUE, "o1"}
\* The options fetchSelects resolves to, by their values.
SelectValues == <<"o1", "o2">>

\* let result = inputValue ? [] : [clearFilterSelect]
FirstResult(inputValue) ==
    IF inputValue # "" THEN <<>> ELSE <<CLEAR_SELECT_FILTER_VALUE>>

\* fetchAndFormatSelects up to its await (or its return, when it does not
\* get that far).
LoadOptionsSync(s, inputValue) ==
    IF s.cache # <<>>
    THEN [s EXCEPT !.calls = Append(@, [inputValue |-> inputValue,
                                        pc |-> "resolved",
                                        result |-> FirstResult(inputValue),
                                        out |-> s.cache[1]])]
    ELSE IF s.fetchSelects
    THEN [s EXCEPT !.fetches = @ + 1,
                   !.calls = Append(@, [inputValue |-> inputValue,
                                        pc |-> "await",
                                        result |-> FirstResult(inputValue),
                                        out |-> <<>>])]
    ELSE [s EXCEPT !.cache = <<FirstResult(inputValue)>>,
                   !.calls = Append(@, [inputValue |-> inputValue,
                                        pc |-> "resolved",
                                        result |-> FirstResult(inputValue),
                                        out |-> FirstResult(inputValue)])]

\* fetchAndFormatSelects after the await of call i, the fetch having
\* resolved to selectValues.
LoadOptionsResume(s, i, selectValues) ==
    LET result == s.calls[i].result
        matching == {x \in Range(result) : x = s.initialValue}
    IN  [s EXCEPT !.selectedOption = IF matching # {}
                                     THEN CHOOSE x \in matching : TRUE ELSE @,
                  !.cache = <<result \o selectValues>>,
                  !.calls[i].pc = "resolved",
                  !.calls[i].result = result \o selectValues,
                  !.calls[i].out = result \o selectValues]

\* The AsyncSelect asks for options.
LoadOptions ==
    /\ Len(sel.calls) < MaxCalls
    /\ \E inputValue \in InputIn : sel' = LoadOptionsSync(sel, inputValue)
    /\ UNCHANGED besideSelect

\* The fetch of a pending call resolves.
FetchResolves ==
    /\ \E i \in 1..Len(sel.calls) :
          /\ sel.calls[i].pc = "await"
          /\ sel' = LoadOptionsResume(sel, i, SelectValues)
    /\ UNCHANGED besideSelect

\* The fetch of a pending call fails: the await throws and the call is
\* rejected, the cache staying as it was.
FetchRejects ==
    /\ \E i \in 1..Len(sel.calls) :
          /\ sel.calls[i].pc = "await"
          /\ sel' = [sel EXCEPT !.calls[i].pc = "rejected"]
    /\ UNCHANGED besideSelect

InitSelect ==
    /\ \E initialValue \in InitialValueIn :
          sel = [Sel0 EXCEPT !.initialValue = initialValue]
    /\ IdleCore
    /\ IdleBesideSelect

SelectNext == LoadOptions \/ FetchResolves \/ FetchRejects

SpecSelectFilter == InitSelect /\ [][SelectNext]_vars

\* C26: over any sequence and interleaving of loadOptions calls on one
\* filter, a second call starting while the first fetch is pending
\* included, fetchSelects is invoked at most once and every call resolves
\* to the same, cached, option list.
C26_FetchSelectsOnce ==
    /\ sel.fetches <= 1
    /\ \A i, j \in 1..Len(sel.calls) :
          (sel.calls[i].pc = "resolved" /\ sel.calls[j].pc = "resolved")
             => sel.calls[i].out = sel.calls[j].out

(***************************************************************************)
(* ColorSchemeManager (modules/ColorSchemeManager.js): the singleton that *)
(* the static functions forward to.                                        *)
(***************************************************************************)
\* The color lists, by identity.
ColorsIn == {"airbnb", "other"}
\* The objects passed to registerSchemes, as their properties in key order.
MultipleSchemesIn ==
    { <<>>,
      <<[name |-> "d3Category10", colors |-> "other"]>>,
      <<[name |-> "d3Category10", colors |-> "other"],
        [name |-> "lyftColors", colors |-> "airbnb"]>>,
      <<[name |-> "lyftColors", colors |-> "other"],
        [name |-> "bnbColors", colors |-> "other"]>> }

\* !this.defaultSchemeName
NoDefault(m) == m.defaultSchemeName \in {Undefined, ""}

\* clearSchemes(): this.schemes = {}; the default name stays.
clearSchemes(m) ==
    [m EXCEPT !.schemes = [n \in SchemeNames |-> Absent],
              !.last = [op |-> "clearSchemes", name |-> Undefined,
                        found |-> m.defaultSchemeName, out |-> Undefined]]

\* this.schemes[schemeName || this.defaultSchemeName]; undefined for a name
\* that has no scheme.
getScheme(m, schemeName) ==
    LET name == IF schemeName \in {Undefined, ""} THEN m.defaultSchemeName
                ELSE schemeName
        scheme == IF name \in SchemeNames /\ m.schemes[name] # Absent
                  THEN m.schemes[name] ELSE Undefined
    IN  [m EXCEPT !.last = [op |-> "getScheme", name |-> schemeName,
                            found |-> m.defaultSchemeName, out |-> scheme]]

setDefaultSchemeName(m, schemeName) ==
    [m EXCEPT !.defaultSchemeName = schemeName,
              !.last = [op |-> "setDefaultSchemeName", name |-> schemeName,
                        found |-> m.defaultSchemeName, out |-> Undefined]]

registerScheme(m, schemeName, colors) ==
    [m EXCEPT !.schemes[schemeName] = colors,
              !.defaultSchemeName = IF NoDefault(m) THEN schemeName ELSE @,
              !.last = [op |-> "registerScheme", name |-> schemeName,
                        found |-> m.defaultSchemeName, out |-> Undefined]]

\* Object.assign(this.schemes, multipleSchemes)
RECURSIVE AssignSchemes(_, _)
AssignSchemes(schemes, multi) ==
    IF multi = <<>> THEN schemes
    ELSE AssignSchemes([schemes EXCEPT ![Head(multi).name] = Head(multi).colors],
                       Tail(multi))

registerSchemes(m, multipleSchemes) ==
    [m EXCEPT !.schemes = AssignSchemes(@, multipleSchemes),
              !.defaultSchemeName =
                  IF NoDefault(m) /\ Len(multipleSchemes) > 0
                  THEN multipleSchemes[1].name ELSE @,
              !.last = [op |-> "registerSchemes",
                        name |-> IF Len(multipleSchemes) > 0
                                 THEN multipleSchemes[1].name ELSE Undefined,
                        found |-> m.defaultSchemeName, out |-> Undefined]]

\* The registrations the module makes on the singleton when it is loaded.
ModuleInitialisation ==
    setDefaultSchemeName(
        registerScheme(
            registerSchemes(
                registerScheme(Csm0, "bnbColors", "airbnb"),
                <<[name |-> "d3Category10", colors |-> "other"]>>),
            "lyftColors", "other"),
        "bnbColors")

CallClearSchemes ==
    /\ csm' = clearSchemes(csm)
    /\ UNCHANGED besideSchemes

CallGetScheme ==
    /\ \E schemeName \in SchemeNames \cup {Undefined} :
          csm' = getScheme(csm, schemeName)
    /\ UNCHANGED besideSchemes

CallSetDefaultSchemeName ==
    /\ \E schemeName \in SchemeNames : csm' = setDefaultSchemeName(csm, schemeName)
    /\ UNCHANGED besideSchemes

CallRegisterScheme ==
    /\ \E schemeName \in SchemeNames, colors \in ColorsIn :
          csm' = registerScheme(csm, schemeName, colors)
    /\ UNCHANGED besideSchemes

CallRegisterSchemes ==
    /\ \E multipleSchemes \in MultipleSchemesIn :
          csm' = registerSchemes(csm, multipleSchemes)
    /\ UNCHANGED besideSchemes

\* A manager just constructed, or the singleton as the module leaves it.
InitSchemes ==
    /\ csm \in {Csm0, ModuleInitialisation}
    /\ IdleCore
    /\ IdleBesideSchemes

SchemesNext ==
    \/ CallClearSchemes
    \/ CallGetScheme
    \/ CallSetDefaultSchemeName
    \/ CallRegisterScheme
    \/ CallRegisterSchemes

SpecSchemes == InitSchemes /\ [][SchemesNext]_vars

\* The names that have a scheme.
Registered == {n \in SchemeNames : csm.schemes[n] # Absent}

\* C27: after any sequence of registerScheme, registerSchemes,
\* setDefaultSchemeName and clearSchemes calls, a default scheme name that is
\* set names a registered scheme, so that getScheme() without a name returns
\* a registered scheme; the first registered scheme becomes the default and
\* later registrations leave the default as it is.
C27_DefaultSchemeIsRegistered ==
    /\ ~NoDefault(csm) => csm.defaultSchemeName \in Registered
    /\ (csm.last.op = "getScheme" /\ csm.last.name = Undefined /\ ~NoDefault(csm))
          => \E n \in Registered : csm.last.out = csm.schemes[n]
    /\ (csm.last.op \in {"registerScheme", "registerSchemes"}
        /\ csm.last.name # Undefined)
          => csm.defaultSchemeName =
                IF csm.last.found = Undefined THEN csm.last.name
                ELSE csm.last.found

(***************************************************************************)
(* AlertReportModal (views/CRUD/alert/AlertReportModal.tsx): the edits of  *)
(* the alert's fields and the validation effect. A step is one handler     *)
(* with the render and the effects that follow it.                         *)
(***************************************************************************)
\* What the inputs hand to the handlers.
TextIn == {"", "text"}
TextFields == {"name", "sql", "crontab"}
OwnersIn == {<<>>, <<"owner">>}
\* onSourceChange stores `value || []`: "[]" is the empty array of a
\* cleared select.
SourceIn == {"db", "[]"}
SelectIn == {"chosen", Undefined}
OperatorIn == {"<"}
ThresholdIn == {"", "5"}

\* validate(): the test that enables Save.
Validate(a) ==
    /\ a.name # ""
    /\ a.owners # <<>>
    /\ a.database # Undefined
    /\ a.sql # ""
    /\ a.operation # Undefined
    /\ a.threshold # Undefined
    /\ a.crontab # ""
    /\ (a.dashboard # Undefined \/ a.chart # Undefined)

\* The dependencies of the validation effect: whether React finds one of
\* them changed between the render of `old` and that of `new`. Strings
\* compare by value; owners and database are objects, and the edit of one
\* stores a new object.
DepsChanged(old, new, field) ==
    \/ old.name # new.name
    \/ old.sql # new.sql
    \/ field \in {"owners", "database"}

\* updateAlertState(name, value), the render with the new currentAlert and
\* the validation effect, which runs validate when its dependencies changed.
UpdateAlertState(m, field, value) ==
    LET data == [m.currentAlert EXCEPT ![field] = value]
    IN  [currentAlert |-> data,
         disableSave |-> IF DepsChanged(m.currentAlert, data, field)
                         THEN ~Validate(data) ELSE m.disableSave]

OnTextChange ==
    /\ \E field \in TextFields, value \in TextIn :
          modal' = UpdateAlertState(modal, field, value)
    /\ UNCHANGED besideModal

OnOwnersChange ==
    /\ \E value \in OwnersIn : modal' = UpdateAlertState(modal, "owners", value)
    /\ UNCHANGED besideModal

OnSourceChange ==
    /\ \E value \in SourceIn : modal' = UpdateAlertState(modal, "database", value)
    /\ UNCHANGED besideModal

OnDashboardChange ==
    /\ \E chosen \in SelectIn :
          modal' = UpdateAlertState(modal, "dashboard", chosen)
    /\ UNCHANGED besideModal

OnChartChange ==
    /\ \E chosen \in SelectIn : modal' = UpdateAlertState(modal, "chart", chosen)
    /\ UNCHANGED besideModal

\* validator_config_json = { operation, threshold: the current one }
OnConditionChange ==
    /\ \E operation \in OperatorIn :
          modal' = UpdateAlertState(modal, "operation", operation)
    /\ UNCHANGED besideModal

\* validator_config_json = { operation: the current one, threshold }
OnThresholdChange ==
    /\ \E value \in ThresholdIn :
          modal' = UpdateAlertState(modal, "threshold", value)
    /\ UNCHANGED besideModal

InitModal ==
    /\ modal = Modal0
    /\ IdleCore
    /\ IdleBesideModal

ModalNext ==
    \/ OnTextChange
    \/ OnOwnersChange
    \/ OnSourceChange
    \/ OnDashboardChange
    \/ OnChartChange
    \/ OnConditionChange
    \/ OnThresholdChange

SpecAlertModal == InitModal /\ [][ModalNext]_vars

\* C28: after any sequence of field edits, once the validation effect has
\* run, Save is enabled exactly when the current alert has a non-empty name,
\* at least one owner, a database, non-empty sql, a condition operation, a
\* defined threshold, a non-empty crontab, and a dashboard or a chart.
C28_SaveEnabledIffValid ==
    ~modal.disableSave <=>
        /\ modal.currentAlert.name # ""
        /\ Len(modal.currentAlert.owners) >= 1
        /\ modal.currentAlert.database # Undefined
        /\ modal.currentAlert.sql # ""
        /\ modal.currentAlert.operation # Undefined
        /\ modal.currentAlert.threshold # Undefined
        /\ modal.currentAlert.crontab # ""
        /\ (modal.currentAlert.dashboard # Undefined
            \/ modal.currentAlert.chart # Undefined)

(***************************************************************************)
(* DataTablesPane (explore/components/DataTablesPane): the effect that     *)
(* fetches the results and the samples of the current queryFormData. A     *)
(* queryFormData is known by its number, and a response or an error by the *)
(* number of the form data it was requested for (0: null).                 *)
(***************************************************************************)
MaxFormData == 2
RESULT_TYPES == {"results", "samples"}

\* getData(resultType) up to the request: the loading flag is set and the
\* request for the current form data is under way.
GetData(p, formData, resultType) ==
    [p EXCEPT !.isLoading[resultType] = TRUE,
              !.requests = Append(@, [formData |-> formData,
                                      resultType |-> resultType,
                                      pc |-> "pending"])]

\* The effect of a new queryFormData: getData for results, then for samples.
NewFormData(p) ==
    LET formData == p.queryFormData + 1
    IN  GetData(GetData([p EXCEPT !.queryFormData = formData],
                        formData, "results"),
                formData, "samples")

\* The .then of request r
Then(p, r) ==
    [p EXCEPT !.data[p.requests[r].resultType] = p.requests[r].formData,
              !.isLoading[p.requests[r].resultType] = FALSE,
              !.error[p.requests[r].resultType] = 0,
              !.requests[r].pc = "resolved"]

\* The .catch of request r
Catch(p, r) ==
    [p EXCEPT !.error[p.requests[r].resultType] = p.requests[r].formData,
              !.isLoading[p.requests[r].resultType] = FALSE,
              !.requests[r].pc = "rejected"]

\* The parent renders the pane with another queryFormData.
ChangeQueryFormData ==
    /\ pane.queryFormData < MaxFormData
    /\ pane' = NewFormData(pane)
    /\ UNCHANGED besidePane

\* The response of a request arrives, in any order.
ResponseArrives ==
    /\ \E r \in 1..Len(pane.requests) :
          /\ pane.requests[r].pc = "pending"
          /\ pane' = Then(pane, r)
    /\ UNCHANGED besidePane

RequestFails ==
    /\ \E r \in 1..Len(pane.requests) :
          /\ pane.requests[r].pc = "pending"
          /\ pane' = Catch(pane, r)
    /\ UNCHANGED besidePane

InitPane ==
    /\ pane = Pane0
    /\ IdleCore
    /\ IdleBesidePane

PaneNext == ChangeQueryFormData \/ ResponseArrives \/ RequestFails

SpecDataTablesPane == InitPane /\ [][PaneNext]_vars

\* The request issued for the latest queryFormData and a result type.
LatestRequest(resultType) ==
    CHOOSE r \in 1..Len(pane.requests) :
        /\ pane.requests[r].resultType = resultType
        /\ pane.requests[r].formData = pane.queryFormData

\* C29: when queryFormData changed while requests for the previous one were
\* in flight, then, all requests having completed, the data, the error and
\* the loading flag shown for each result type are those of the request for
\* the latest queryFormData, in whatever order the responses arrived, and
\* the loading flags are false.
C29_LatestRequestWins ==
    (\A r \in 1..Len(pane.requests) : pane.requests[r].pc # "pending") =>
        \A resultType \in RESULT_TYPES :
            /\ ~pane.isLoading[resultType]
            /\ pane.requests[LatestRequest(resultType)].pc = "resolved"
                  => /\ pane.data[resultType] = pane.queryFormData
                     /\ pane.error[resultType] = 0
            /\ pane.requests[LatestRequest(resultType)].pc = "rejected"
                  => pane.error[resultType] = pane.queryFormData

(***************************************************************************)
(* useListViewState (components/ListView/utils.ts): applyFilterValue. The  *)
(* table state (filters, pageIndex) is react-table's: setAllFilters        *)
(* replaces the filters and gotoPage sets the page index.                  *)
(***************************************************************************)
MaxPage == 2
\* The values a filter can hold: none, the empty string, two texts.
FilterValuesIn == {Undefined, "", "a", "b"}
\* initialFilters: the filters of the list, each with its id and operator.
InitialFilters ==
    <<[id |-> "name", operator |-> "ct"], [id |-> "owner", operator |-> "rel_m_m"]>>

\* mergeCreateFilterValues(initialFilters, query.filters), for the values
\* that the query gives to the filters.
mergeCreateFilterValues(list, values) ==
    [i \in 1..Len(list) |->
        [id |-> list[i].id, operator |-> list[i].operator, value |-> values[i]]]

\* convertFilters: the filters whose value is not undefined, as
\* { value, operator, id }.
RECURSIVE convertFilters(_)
convertFilters(fts) ==
    IF fts = <<>> THEN <<>>
    ELSE (IF Head(fts).value # Undefined
          THEN <<[value |-> Head(fts).value, operator |-> Head(fts).operator,
                  id |-> Head(fts).id]>>
          ELSE <<>>)
         \o convertFilters(Tail(fts))

\* An update that lands on the first element whatever the index.
updateInListFirst(list, index, update) ==
    [i \in 1..Len(list) |->
        IF i = 1
        THEN [id |-> update.id, operator |-> update.operator,
              value |-> update.value]
        ELSE list[i]]

\* updateInList(list, index, update): a new list, the element at index
\* overlaid with update. (Indices count from 1 here.)
updateInList(list, index, update) ==
    [i \in 1..Len(list) |->
        IF i = index
        THEN [id |-> update.id, operator |-> update.operator,
              value |-> update.value]
        ELSE list[i]]

\* applyFilterValue(index, value): the updater given to setInternalFilters,
\* with the setAllFilters and gotoPage calls it makes.
applyFilterValue(s, index, value) ==
    LET before == [op |-> "applyFilterValue", index |-> index, value |-> value,
                   same |-> TRUE, internalFilters |-> s.internalFilters,
                   filters |-> s.filters, pageIndex |-> s.pageIndex]
        update == [s.internalFilters[index] EXCEPT !.value = value]
        updatedFilters == updateInList(s.internalFilters, index, update)
    IN  IF s.internalFilters[index].value = value
        THEN [s EXCEPT !.last = before]
        ELSE [internalFilters |-> updatedFilters,
              filters |-> convertFilters(updatedFilters),
              pageIndex |-> 0,
              last |-> [before EXCEPT !.same = FALSE]]

ApplyFilterValue ==
    /\ \E index \in 1..Len(lv.internalFilters), value \in FilterValuesIn :
          lv' = applyFilterValue(lv, index, value)
    /\ UNCHANGED besideListView

\* The user turns to another page.
GotoPage ==
    /\ \E page \in 0..MaxPage :
          lv' = [lv EXCEPT !.pageIndex = page,
                           !.last = [NoListCall EXCEPT !.op = "gotoPage"]]
    /\ UNCHANGED besideListView

\* A list opened with some filter values and some page in its query.
InitListView ==
    /\ \E values \in [1..Len(InitialFilters) -> FilterValuesIn],
          page \in 0..MaxPage :
          lv = [internalFilters |-> mergeCreateFilterValues(InitialFilters, values),
                filters |-> convertFilters(
                                mergeCreateFilterValues(InitialFilters, values)),
                pageIndex |-> page,
                last |-> NoListCall]
    /\ IdleCore
    /\ IdleBesideListView

ListViewNext == ApplyFilterValue \/ GotoPage

SpecListView == InitListView /\ [][ListViewNext]_vars

\* C30: applyFilterValue(index, value): when value is the current value of
\* the internal filter at index, the internal filters are returned as they
\* are and neither the table filters nor the page index are touched;
\* otherwise only the filter at index gets the new value, the other filters
\* keeping id, operator and value, the table filters become the filters with
\* a defined value, and the page index is 0.
C30_ApplyFilterValue ==
    lv.last.op = "applyFilterValue" =>
        LET was == lv.last.internalFilters
            index == lv.last.index
        IN  IF was[index].value = lv.last.value
            THEN /\ lv.last.same
                 /\ lv.internalFilters = was
                 /\ lv.filters = lv.last.filters
                 /\ lv.pageIndex = lv.last.pageIndex
            ELSE /\ Len(lv.internalFilters) = Len(was)
                 /\ lv.internalFilters[index] =
                       [id |-> was[index].id, operator |-> was[index].operator,
                        value |-> lv.last.value]
                 /\ \A j \in 1..Len(was) :
                       j # index => lv.internalFilters[j] = was[j]
                 /\ Len(lv.filters) =
                       Cardinality({j \in 1..Len(was) :
                                       lv.internalFilters[j].value # Undefined})
                 /\ \A f \in Range(lv.filters) :
                       \E j \in 1..Len(was) :
                          /\ lv.internalFilters[j].value # Undefined
                          /\ f = [value |-> lv.internalFilters[j].value,
                                  operator |-> lv.internalFilters[j].operator,
                                  id |-> lv.internalFilters[j].id]
                 /\ lv.pageIndex = 0

C30_Witness ==
    /\ lv.last.op = "applyFilterValue"
    /\ ~lv.last.same
    /\ lv.last.index = 2
    /\ lv.last.pageIndex = 2
    /\ lv.internalFilters[1].value = Undefined
    /\ lv.filters = <<[value |-> "a", operator |-> "rel_m_m", id |-> "owner"]>>
=============================================================================
